---- MODULE Spec2Model ----
(***************************************************************************)
(* Model of image-hidden-message: the bit-level codec (buffer_modify.rs),  *)
(* the capacity planner and header framing (header.rs) and the encode /    *)
(* decode commands (main.rs).                                              *)
(*                                                                         *)
(* Representation.  A byte is a number 0..255.  A u64 that is used as a    *)
(* bit pattern or is serialized (data_mask, start_offset, data_len inside  *)
(* a header) is the sequence of its 8 bytes, most significant first, so    *)
(* that bit (63 - i) of the u64 is bit (7 - i % 8) of byte i \div 8 + 1.    *)
(* A u64 the planner computes with is a natural number; where the code's   *)
(* arithmetic leaves the 64-bit range the two outcomes of the build (a     *)
(* panic with overflow checks, a wrapped value without) are both modelled. *)
(***************************************************************************)
EXTENDS Integers, Sequences, FiniteSets, TLC

VARIABLES
    pc,               \* position of the command / function under execution
    overflow_checks,  \* build profile: TRUE = arithmetic overflow panics, FALSE = wraps
    color_type,       \* image::ColorType of the image: "Rgb8" or "Rgba8"
    pixel_count,      \* generate_v1_header argument / image dimensions product
    data_len_bytes,   \* generate_v1_header argument: length of the payload
    bits_needed_per_pixel, \* calculate_bit_mask argument
    pixel_bit_width,  \* create_offset_map argument (pixel_size)
    image_in,         \* the raw pixel buffer as it was handed in
    image_buf,        \* the raw pixel buffer
    message_buf,      \* the bytes to hide (data_to_write)
    mask,             \* write_mask / read_mask argument of the codec
    start,            \* pixels_offset_start argument of the codec
    header,           \* VersionedHeader (or the Result of generate_v1_header)
    raw,              \* HeaderRaw
    header_binary,    \* the bytes of the HeaderRaw (as_binary_data)
    result            \* what the last operation returned

vars == <<pc, overflow_checks, color_type, pixel_count, data_len_bytes,
          bits_needed_per_pixel, pixel_bit_width, image_in, image_buf, message_buf, mask, start, header, raw, header_binary, result>>

\* ------------------------------------------------------------------ bounds

\* pixels of the buffers of the codec specification
CodecPixels == 8
\* longest data sequence of the codec specification
CodecMaxData == 2

\* pixels of the image of the encode / decode specification
ImagePixels == 170
\* longest payload of the encode / decode specification
MaxPayload == 1
\* largest pixel_count and data_len_bytes the planner specification draws
MaxPixelCount == 40
MaxDataLen == 40
\* largest bits_needed_per_pixel the mask specification draws
MaskMaxBits == 40
\* bits of a u64: the largest pixel_size create_offset_map can be asked for
U64Bits == 64

\* ------------------------------------------------------------- byte helpers

Pow2(k) == 2 ^ k

\* byte & (0b1u8 << 7 >> i) != 0
BitAt(byte, i) == (byte \div Pow2(7 - i)) % 2 = 1

\* 0b1u8 << 7 >> i
LocalMask(i) == Pow2(7 - i)

\* A write that only ORs the data bit in and never clears the target bit.
ClearBit_Skipped(byte, i) == byte

\* A write that clears the whole byte of the target bit.
ClearBit_WholeByte(byte, i) == 0

\* current_pixel_slice[..] &= !local_mask
ClearBit(byte, i) == IF BitAt(byte, i) THEN byte - LocalMask(i) ELSE byte

\* current_pixel_slice[..] |= local_mask
SetBit(byte, i) == IF BitAt(byte, i) THEN byte ELSE byte + LocalMask(i)

\* The 8 bits of a byte, most significant first.
BitsOfByte(byte) == [i \in 1..8 |-> BitAt(byte, i - 1)]

\* The byte built from 8 booleans, most significant first.
ByteOfBits(bits) ==
    LET v(i) == IF bits[i] THEN LocalMask(i - 1) ELSE 0
    IN  v(1) + v(2) + v(3) + v(4) + v(5) + v(6) + v(7) + v(8)

ColorTypes == {"Rgb8", "Rgba8"}

channel_count(ct) == IF ct = "Rgb8" THEN 3 ELSE 4

bytes_per_pixel(ct) == IF ct = "Rgb8" THEN 3 ELSE 4

bits_per_pixel(ct) == IF ct = "Rgb8" THEN 24 ELSE 32

ZeroU64 == <<0, 0, 0, 0, 0, 0, 0, 0>>

\* ------------------------------------------------------------- the codec

RECURSIVE OffsetMapFrom(_, _, _)
OffsetMapFrom(write_mask, pixel_size, i) ==
    IF i >= pixel_size THEN <<>>
    ELSE IF BitAt(write_mask[(i \div 8) + 1], i % 8)
         THEN <<i>> \o OffsetMapFrom(write_mask, pixel_size, i + 1)
         ELSE OffsetMapFrom(write_mask, pixel_size, i + 1)

\* The loop started at 1 instead of 0.
create_offset_map_FromOne(write_mask, pixel_size) == OffsetMapFrom(write_mask, pixel_size, 1)

\* create_offset_map: for i in 0..pixel_size, push i if (0b1 << 63 >> i) & write_mask > 0
create_offset_map(write_mask, pixel_size) == OffsetMapFrom(write_mask, pixel_size, 0)

\* get_pixel_slice: the slice exists iff its end is inside the buffer.
PixelInBounds(buf, pixel_len_bytes, current_pixel_index) ==
    (current_pixel_index + 1) * pixel_len_bytes <= Len(buf)

\* index (1-based) in the buffer of byte in_pixel_offset / 8 of the pixel
PixelByte(pixel_len_bytes, current_pixel_index, in_pixel_offset) ==
    current_pixel_index * pixel_len_bytes + (in_pixel_offset \div 8) + 1

\* The loops of read_from_buffer and write_to_buffer are run one execution of
\* the inner loop's body at a time: ReadStep and WriteStep are that body (with
\* the outer loop's advance to the next pixel and its get_pixel_slice), on a
\* record of the function's local variables; kind is "run" while the loop runs
\* and "ok" or "panic" once the function has returned or panicked.

\* One execution of the body of `for in_pixel_offset in &offset_map` in
\* read_from_buffer; s.j is the (1-based) position in the offset map.
ReadStep(s, buf, plen, om, bytes_len_read) ==
    IF s.kind # "run" THEN s
    ELSE LET px == IF s.j > Len(om) THEN s.current_pixel_index + 1
                   ELSE s.current_pixel_index
             j == IF s.j > Len(om) THEN 1 ELSE s.j
         IN  IF ~PixelInBounds(buf, plen, px)
             THEN [s EXCEPT !.kind = "panic"]
             ELSE LET bit_value == BitAt(buf[PixelByte(plen, px, om[j])], om[j] % 8)
                      bits == Append(s.current_byte_vec, bit_value)
                      out == Append(s.return_data, ByteOfBits(bits))
                  IN  IF Len(bits) = 8
                      THEN [kind |-> IF Len(out) = bytes_len_read THEN "ok" ELSE "run",
                            current_pixel_index |-> px, j |-> j + 1,
                            current_byte_vec |-> <<>>, return_data |-> out]
                      ELSE [kind |-> "run", current_pixel_index |-> px, j |-> j + 1,
                            current_byte_vec |-> bits, return_data |-> s.return_data]

RECURSIVE ReadRun(_, _, _, _, _, _)
\* At most n executions of the loop body, one after the other, until the loop ends.
ReadRun(s, n, buf, plen, om, bytes_len_read) ==
    IF n = 0 THEN s
    ELSE IF n = 1 THEN ReadStep(s, buf, plen, om, bytes_len_read)
    ELSE LET half == ReadRun(s, n \div 2, buf, plen, om, bytes_len_read)
         IN  IF half.kind # "run" THEN half
             ELSE ReadRun(half, n - (n \div 2), buf, plen, om, bytes_len_read)

\* The loop ends by a return after 8 * bytes_len_read bits or by the panic of
\* get_pixel_slice at the first pixel past the buffer, whichever comes first.
ReadFuel(buf, plen, om, bytes_len_read) ==
    LET a == 8 * bytes_len_read
        b == ((Len(buf) \div plen) + 1) * Len(om)
    IN  1 + (IF a > b THEN a ELSE b)

read_from_buffer(buf, pixels_offset_start, bytes_len_read, read_mask, ct) ==
    LET offset_map == create_offset_map(read_mask, bits_per_pixel(ct))
        s0 == [kind |-> "run", current_pixel_index |-> pixels_offset_start, j |-> 1,
               current_byte_vec |-> <<>>, return_data |-> <<>>]
        end == ReadRun(s0, ReadFuel(buf, bytes_per_pixel(ct), offset_map, bytes_len_read),
                       buf, bytes_per_pixel(ct), offset_map, bytes_len_read)
    IN  IF Len(offset_map) = 0
        THEN [kind |-> "panic", data |-> <<>>]
        ELSE [kind |-> end.kind, data |-> end.return_data]

\* One execution of the body of `for in_pixel_offset in &offset_map` in
\* write_to_buffer; s.current_byte_to_write holds the bits still to write of
\* data_to_write[data_to_write_index], the next one first (the code pops them
\* from the back of the reversed vector).
WriteStep(s, plen, om, data_to_write) ==
    IF s.kind # "run" THEN s
    ELSE LET px == IF s.j > Len(om) THEN s.current_pixel_index + 1
                   ELSE s.current_pixel_index
             j == IF s.j > Len(om) THEN 1 ELSE s.j
         IN  IF ~PixelInBounds(s.buf, plen, px)
             THEN [s EXCEPT !.kind = "panic"]
             ELSE LET at == PixelByte(plen, px, om[j])
                      cleared == ClearBit(s.buf[at], om[j] % 8)
                      written == IF Head(s.current_byte_to_write)
                                 THEN SetBit(cleared, om[j] % 8) ELSE cleared
                      buf2 == [s.buf EXCEPT ![at] = written]
                      idx == s.data_to_write_index + 1
                  IN  IF Len(s.current_byte_to_write) = 1
                      THEN IF idx >= Len(data_to_write)
                           THEN [kind |-> "ok", current_pixel_index |-> px, j |-> j + 1,
                                 current_byte_to_write |-> <<>>,
                                 data_to_write_index |-> idx, buf |-> buf2]
                           ELSE [kind |-> "run", current_pixel_index |-> px, j |-> j + 1,
                                 current_byte_to_write |-> BitsOfByte(data_to_write[idx + 1]),
                                 data_to_write_index |-> idx, buf |-> buf2]
                      ELSE [kind |-> "run", current_pixel_index |-> px, j |-> j + 1,
                            current_byte_to_write |-> Tail(s.current_byte_to_write),
                            data_to_write_index |-> s.data_to_write_index, buf |-> buf2]

RECURSIVE WriteRun(_, _, _, _, _)
\* At most n executions of the loop body, one after the other, until the loop ends.
WriteRun(s, n, plen, om, data_to_write) ==
    IF n = 0 THEN s
    ELSE IF n = 1 THEN WriteStep(s, plen, om, data_to_write)
    ELSE LET half == WriteRun(s, n \div 2, plen, om, data_to_write)
         IN  IF half.kind # "run" THEN half
             ELSE WriteRun(half, n - (n \div 2), plen, om, data_to_write)

write_to_buffer(buf, pixels_offset_start, write_mask, ct, data_to_write) ==
    LET offset_map == create_offset_map(write_mask, bits_per_pixel(ct))
    IN  IF Len(offset_map) = 0
        THEN [kind |-> "panic", buf |-> buf]
        ELSE IF Len(data_to_write) = 0
        THEN [kind |-> "panic", buf |-> buf]
        ELSE LET s0 == [kind |-> "run", current_pixel_index |-> pixels_offset_start,
                        j |-> 1, current_byte_to_write |-> BitsOfByte(data_to_write[1]),
                        data_to_write_index |-> 0, buf |-> buf]
                 \* every execution of the body writes one bit: the loop returns
                 \* in the execution that writes the last of the 8 * len bits
                 end == WriteRun(s0, 8 * Len(data_to_write), bytes_per_pixel(ct),
                                 offset_map, data_to_write)
             IN  [kind |-> end.kind, buf |-> end.buf]

\* ------------------------------------------------------ the capacity planner

\* A u64 below 2^31 as its 8 bytes, most significant first.
U64FromNat(n) ==
    <<0, 0, 0, 0, (n \div 16777216) % 256, (n \div 65536) % 256, (n \div 256) % 256, n % 256>>

\* Whether a u64 is below 2^31, and then its value.
U64IsSmall(b) == b[1] = 0 /\ b[2] = 0 /\ b[3] = 0 /\ b[4] = 0 /\ b[5] < 128

NatFromU64(b) == b[5] * 16777216 + b[6] * 65536 + b[7] * 256 + b[8]

\* The byte of one channel: for i in clear_bits_count..bits_per_channel
\* { vec_for_channel[i / 8] |= 0b1u8 << 7 >> i % 8 }, with 8 bits per channel.
RECURSIVE ChannelByteFrom(_)
ChannelByteFrom(i) == IF i >= 8 THEN 0 ELSE LocalMask(i % 8) + ChannelByteFrom(i + 1)

\* The same loop started one position late.
ChannelByte_OffByOne(bits_for_current_channel) ==
    ChannelByteFrom(8 - bits_for_current_channel + 1)

\* bits_per_channel - bits_for_current_channel does not underflow here.
ChannelByte(bits_for_current_channel) == ChannelByteFrom(8 - bits_for_current_channel)

\* data_bits_per_channel after the remainder loop
DataBitsPerChannel(bits, ct) ==
    [i \in 1..channel_count(ct) |->
        (bits \div channel_count(ct)) + (IF i - 1 < bits % channel_count(ct) THEN 1 ELSE 0)]

\* calculate_bit_mask.  A channel asked for more than its 8 bits makes
\* bits_per_channel - bits_for_current_channel underflow: a panic with overflow
\* checks, and without them a wrapped clear_bits_count above 8, an empty range and
\* no bit for that channel.
calculate_bit_mask(bits, ct, checks) ==
    LET per == DataBitsPerChannel(bits, ct)
        byte(i) == IF i > channel_count(ct) THEN 0
                   ELSE IF per[i] > 8 THEN 0
                   ELSE ChannelByte(per[i])
    IN  IF checks /\ \E i \in 1..channel_count(ct) : per[i] > 8
        THEN [kind |-> "panic"]
        ELSE [kind |-> "ok",
              mask |-> <<byte(1), byte(2), byte(3), byte(4), 0, 0, 0, 0>>]

\* (size_of::<u64>() * 2 + 4 + size_of::<u32>()) as u64
v1_header_len == 8 * 2 + 4 + 4

\* Offsets above the header the model draws when the range of gen_range has
\* wrapped around to nearly 2^64 values
WrappedSample == 2

V1(start_offset, data_mask, data_len) ==
    [stuffing_opts |-> [start_offset |-> start_offset],
     data_mask |-> data_mask, data_len |-> data_len]

\* The start offsets of a range that does not wrap: v1_header_len +
\* thread_rng().gen_range(0..range), for every value of the random source.
StartOffsets(range) == { v1_header_len + r : r \in 0..(range - 1) }

\* The start offsets, among those the model can write down, of a range
\* 0..(2^64 - d) that has wrapped (d > 0): v1_header_len + r modulo 2^64 takes
\* every value from v1_header_len up, and the values below v1_header_len - d.
WrappedStartOffsets(d) ==
    { v1_header_len + r : r \in 0..WrappedSample } \cup 0..(v1_header_len - 1 - d)

\* The quotient rounded up instead of one more than the quotient rounded down.
BitsNeededPerPixel_RoundedUp(len, available_pixels) ==
    ((len * 8 + available_pixels - 1) \div available_pixels) % 256

\* bits_needed_per_pixel = (1 + (data_len_bytes * 8 / available_pixels)) as u8
BitsNeededPerPixel(len, available_pixels) == (1 + ((len * 8) \div available_pixels)) % 256

\* generate_v1_header from the capacity check on (lines 145-162); available_pixels is
\* the mathematical pixel_count - v1_header_len, negative when line 139 has wrapped.
PlanRest(pixels, len, ct, checks, available_pixels, bits) ==
    IF bits > bits_per_pixel(ct) THEN {[kind |-> "Err"]}
    ELSE IF bits = 0 THEN {[kind |-> "panic"]}
    ELSE LET pixels_needed_to_store_message == ((len * 8) \div bits) + 1
             range == available_pixels - pixels_needed_to_store_message
             data_mask == calculate_bit_mask(bits, ct, checks).mask
         IN  IF range < 0
             THEN IF checks THEN {[kind |-> "panic"]}
                  ELSE { [kind |-> "Ok",
                          header |-> V1(U64FromNat(o), data_mask, U64FromNat(len))] :
                           o \in WrappedStartOffsets(0 - range) }
             ELSE IF range = 0 THEN {[kind |-> "panic"]}
             ELSE { [kind |-> "Ok",
                     header |-> V1(U64FromNat(o), data_mask, U64FromNat(len))] :
                      o \in StartOffsets(range) }

\* generate_v1_header(pixel_count, data_len_bytes, color_type): the set of its
\* results over the values of the random source.  "Err" is the returned error
\* ("Cannot encode data ..."), "panic" a panic: the subtraction overflows (with
\* overflow checks), the division is by zero, or gen_range gets an empty range.
\* Without overflow checks pixel_count - v1_header_len wraps to 2^64 - k, the
\* quotient data_len_bytes * 8 / available_pixels is then 0 (data_len_bytes is
\* far below 2^60 here) and bits_needed_per_pixel is 1.
generate_v1_header(pixels, len, ct, checks) ==
    LET available_pixels == pixels - v1_header_len
    IN  IF available_pixels < 0
        THEN IF checks THEN {[kind |-> "panic"]}
             ELSE PlanRest(pixels, len, ct, checks, available_pixels, 1)
        ELSE IF available_pixels = 0 THEN {[kind |-> "panic"]}
        ELSE PlanRest(pixels, len, ct, checks, available_pixels,
                      BitsNeededPerPixel(len, available_pixels))

\* ------------------------------------------------------- header framing

\* Exclusive or of two bytes.
Xor8(a, b) ==
    LET x(k) == (((a \div Pow2(k)) + (b \div Pow2(k))) % 2) * Pow2(k)
    IN  x(0) + x(1) + x(2) + x(3) + x(4) + x(5) + x(6) + x(7)

\* CRC_32_CKSUM: width 32, poly 0x04c11db7, init 0, no reflection, xorout
\* 0xffffffff.  The register is its 4 bytes, most significant first.  One message
\* bit: shift the register left, and subtract the polynomial if the bit shifted
\* out differs from the message bit.
CrcBit(reg, bit) ==
    LET top == (reg[1] >= 128) # bit
        sh == <<(reg[1] * 2 + (reg[2] \div 128)) % 256, (reg[2] * 2 + (reg[3] \div 128)) % 256,
                (reg[3] * 2 + (reg[4] \div 128)) % 256, (reg[4] * 2) % 256>>
    IN  IF top THEN <<Xor8(sh[1], 4), Xor8(sh[2], 193), Xor8(sh[3], 29), Xor8(sh[4], 183)>>
        ELSE sh

RECURSIVE CrcBits(_, _, _, _)
\* The message bits lo..hi-1 (bit k is bit k % 8, most significant first, of byte
\* k \div 8), one after the other.
CrcBits(reg, data, lo, hi) ==
    IF hi <= lo THEN reg
    ELSE IF hi = lo + 1 THEN CrcBit(reg, BitAt(data[(lo \div 8) + 1], lo % 8))
    ELSE LET mid == lo + ((hi - lo) \div 2)
             half == CrcBits(reg, data, lo, mid)
         IN  IF Len(half) # 4 THEN half ELSE CrcBits(half, data, mid, hi)

\* Crc::<u32>::new(&CRC_32_CKSUM).checksum(data), as 4 bytes, most significant first
checksum(data) ==
    LET reg == CrcBits(<<0, 0, 0, 0>>, data, 0, 8 * Len(data))
    IN  <<Xor8(reg[1], 255), Xor8(reg[2], 255), Xor8(reg[3], 255), Xor8(reg[4], 255)>>

\* bincode's variable-length integers (config::standard()): a value below 251 is
\* one byte; otherwise a marker byte 251, 252 or 253 and the value as a
\* little-endian u16, u32 or u64, the narrowest that holds it.
VarintEncode_Threshold(v) ==
    IF v[1] = 0 /\ v[2] = 0 /\ v[3] = 0 /\ v[4] = 0 /\ v[5] = 0 /\ v[6] = 0 /\ v[7] = 0
       /\ v[8] <= 251
    THEN <<v[8]>>
    ELSE IF v[1] = 0 /\ v[2] = 0 /\ v[3] = 0 /\ v[4] = 0 /\ v[5] = 0 /\ v[6] = 0
    THEN <<251, v[8], v[7]>>
    ELSE IF v[1] = 0 /\ v[2] = 0 /\ v[3] = 0 /\ v[4] = 0
    THEN <<252, v[8], v[7], v[6], v[5]>>
    ELSE <<253, v[8], v[7], v[6], v[5], v[4], v[3], v[2], v[1]>>

VarintEncode(v) ==
    IF v[1] = 0 /\ v[2] = 0 /\ v[3] = 0 /\ v[4] = 0 /\ v[5] = 0 /\ v[6] = 0 /\ v[7] = 0
       /\ v[8] < 251
    THEN <<v[8]>>
    ELSE IF v[1] = 0 /\ v[2] = 0 /\ v[3] = 0 /\ v[4] = 0 /\ v[5] = 0 /\ v[6] = 0
    THEN <<251, v[8], v[7]>>
    ELSE IF v[1] = 0 /\ v[2] = 0 /\ v[3] = 0 /\ v[4] = 0
    THEN <<252, v[8], v[7], v[6], v[5]>>
    ELSE <<253, v[8], v[7], v[6], v[5], v[4], v[3], v[2], v[1]>>

\* Decoding at position at (1-based) of an integer type of `width` bytes: the value
\* and the position after it, or an error when the bytes end early or the marker
\* announces a wider integer than the type (254, 255: u128 and reserved).
VarintDecode(bytes, at, width) ==
    LET have(n) == at + n <= Len(bytes)
        b(k) == bytes[at + k]
        bad == [ok |-> FALSE, value |-> ZeroU64, next |-> at]
    IN  IF at > Len(bytes) THEN bad
        ELSE IF bytes[at] < 251
        THEN [ok |-> TRUE, value |-> <<0, 0, 0, 0, 0, 0, 0, bytes[at]>>, next |-> at + 1]
        ELSE IF bytes[at] = 251 /\ width >= 2 /\ have(2)
        THEN [ok |-> TRUE, value |-> <<0, 0, 0, 0, 0, 0, b(2), b(1)>>, next |-> at + 3]
        ELSE IF bytes[at] = 252 /\ width >= 4 /\ have(4)
        THEN [ok |-> TRUE, value |-> <<0, 0, 0, 0, b(4), b(3), b(2), b(1)>>, next |-> at + 5]
        ELSE IF bytes[at] = 253 /\ width >= 8 /\ have(8)
        THEN [ok |-> TRUE, value |-> <<b(8), b(7), b(6), b(5), b(4), b(3), b(2), b(1)>>,
              next |-> at + 9]
        ELSE bad

\* bincode::encode_to_vec(header, config::standard()) of a VersionedHeader: the
\* variant index of V1, the variant index of V1DataStuffingOptions::None, and the
\* three u64 fields in declaration order.
EncodeHeader(h) ==
    <<0>> \o <<0>> \o VarintEncode(h.stuffing_opts.start_offset)
          \o VarintEncode(h.data_mask) \o VarintEncode(h.data_len)

\* bincode::decode_from_slice of a VersionedHeader; bytes after it are ignored.
DecodeHeader(bytes) ==
    LET tag1 == VarintDecode(bytes, 1, 4)
        tag2 == VarintDecode(bytes, tag1.next, 4)
        so == VarintDecode(bytes, tag2.next, 8)
        dm == VarintDecode(bytes, so.next, 8)
        dl == VarintDecode(bytes, dm.next, 8)
    IN  IF /\ tag1.ok /\ tag1.value = ZeroU64
           /\ tag2.ok /\ tag2.value = ZeroU64
           /\ so.ok /\ dm.ok /\ dl.ok
        THEN [kind |-> "Ok", header |-> V1(so.value, dm.value, dl.value)]
        ELSE [kind |-> "DecodeError"]

\* impl TryInto<HeaderRaw> for VersionedHeader; header_len is data.len() as u16,
\* here as the number it is (the payload is at most 29 bytes long).
try_into(h) ==
    LET data == EncodeHeader(h)
    IN  [magic |-> 66, header_len |-> Len(data), data |-> data, crc |-> checksum(data)]

\* The checksum compared before the magic number.
try_from_ChecksumFirst(value) ==
    IF checksum(value.data) # value.crc THEN [kind |-> "ChecksumMismatch"]
    ELSE IF value.magic # 66 THEN [kind |-> "MagicMismatch"]
    ELSE DecodeHeader(value.data)

\* The checksum not compared at all.
try_from_Unchecked(value) ==
    IF value.magic # 66 THEN [kind |-> "MagicMismatch"]
    ELSE DecodeHeader(value.data)

\* impl TryFrom<HeaderRaw> for VersionedHeader
try_from(value) ==
    IF value.magic # 66 THEN [kind |-> "MagicMismatch"]
    ELSE IF checksum(value.data) # value.crc THEN [kind |-> "ChecksumMismatch"]
    ELSE DecodeHeader(value.data)

\* bincode::encode_to_vec(as_raw_header, config::standard()) of a HeaderRaw: magic as
\* it is, header_len and crc as variable-length integers, data as its length and
\* its bytes.
EncodeRaw(r) ==
    <<r.magic>> \o VarintEncode(U64FromNat(r.header_len))
                \o VarintEncode(U64FromNat(Len(r.data))) \o r.data
                \o VarintEncode(<<0, 0, 0, 0>> \o r.crc)

\* bincode::decode_from_slice of a HeaderRaw
DecodeRaw(bytes) ==
    LET hl == VarintDecode(bytes, 2, 2)
        n == VarintDecode(bytes, hl.next, 8)
        len == NatFromU64(n.value)
        crc == VarintDecode(bytes, n.next + len, 4)
    IN  IF /\ Len(bytes) >= 1 /\ hl.ok /\ n.ok /\ U64IsSmall(n.value)
           /\ n.next + len <= Len(bytes) + 1 /\ crc.ok
        THEN [kind |-> "Ok",
              raw |-> [magic |-> bytes[1], header_len |-> NatFromU64(hl.value),
                       data |-> SubSeq(bytes, n.next, n.next + len - 1),
                       crc |-> SubSeq(crc.value, 5, 8)]]
        ELSE [kind |-> "DecodeError"]

\* ------------------------------------------------ specification of the codec

\* Sample masks: the test's mask, the header mask of main.rs, all bits of four
\* channels, the low nibbles, the fourth channel only, bit 0 only, zero, and the
\* first two bytes of the offset-map test.
CodecMasks ==
    { <<1, 1, 1, 0, 0, 0, 0, 0>>, <<1, 0, 0, 0, 0, 0, 0, 0>>,
      <<255, 255, 255, 255, 0, 0, 0, 0>>, <<15, 15, 15, 0, 0, 0, 0, 0>>,
      <<0, 0, 0, 1, 0, 0, 0, 0>>, <<0, 0, 0, 0, 0, 0, 0, 1>>, ZeroU64,
      <<132, 33, 0, 0, 0, 0, 0, 0>> }

\* Buffer contents: all zero, all one, and a mixed pattern.
Buffers(n) ==
    { [i \in 1..n |-> 0], [i \in 1..n |-> 255], [i \in 1..n |-> (i * 37 + 11) % 256] }

DataBytes == {0, 18, 255}

SeqsUpTo(S, n) == UNION { [1..k -> S] : k \in 0..n }

\* Values of the variables a specification does not use.
Idle ==
    /\ overflow_checks = TRUE
    /\ pixel_count = 0
    /\ data_len_bytes = 0
    /\ bits_needed_per_pixel = 0
    /\ pixel_bit_width = 0
    /\ header = <<>>
    /\ raw = <<>>
    /\ header_binary = <<>>

CodecInit ==
    /\ pc = "codec"
    /\ Idle
    /\ color_type \in ColorTypes
    /\ image_in \in Buffers(CodecPixels * bytes_per_pixel(color_type))
    /\ image_buf = image_in
    /\ message_buf \in SeqsUpTo(DataBytes, CodecMaxData)
    /\ mask \in CodecMasks
    /\ start \in 0..CodecPixels
    /\ result = <<>>

\* write_to_buffer(&mut image_buf, start, mask, color_type, &message_buf)
WriteToBuffer ==
    /\ pc = "codec"
    /\ LET w == write_to_buffer(image_buf, start, mask, color_type, message_buf)
       IN  /\ image_buf' = w.buf
           /\ result' = [kind |-> w.kind]
           /\ pc' = IF w.kind = "ok" THEN "written" ELSE "write_panicked"
    /\ UNCHANGED <<overflow_checks, color_type, pixel_count, data_len_bytes,
                   bits_needed_per_pixel, pixel_bit_width, image_in,
                   message_buf, mask, start, header, raw, header_binary>>

\* read_from_buffer(&image_buf, start, message_buf.len(), mask, color_type), after a
\* write (the test encode_and_decode_into_byte_buffer) or on the buffer as handed in.
ReadFromBuffer ==
    /\ pc \in {"codec", "written"}
    /\ result' = read_from_buffer(image_buf, start, Len(message_buf), mask, color_type)
    /\ pc' = IF pc = "written" THEN "read_back" ELSE "read"
    /\ UNCHANGED <<overflow_checks, color_type, pixel_count, data_len_bytes,
                   bits_needed_per_pixel, pixel_bit_width, image_in,
                   image_buf, message_buf, mask, start, header, raw, header_binary>>

CodecNext == WriteToBuffer \/ ReadFromBuffer

SpecCodec == CodecInit /\ [][CodecNext]_vars

\* ---------------------------------------------- specification of the planner

\* Bit b (0 the least significant) of a u64.
U64Bit(m, b) == (m[8 - (b \div 8)] \div Pow2(b % 8)) % 2 = 1

\* util_count_bits of the tests
PopCount(m) == Cardinality({ b \in 0..(U64Bits - 1) : U64Bit(m, b) })

\* The inputs: every small pair, the call of the test generate_v1_header_test
\* and the 4x4 image with a 1000-byte payload.
PlanInputs ==
    ((0..MaxPixelCount) \X (0..MaxDataLen)) \cup { <<600, 100>>, <<16, 1000>> }

PlanInit ==
    /\ pc = "plan"
    /\ overflow_checks \in BOOLEAN
    /\ color_type \in ColorTypes
    /\ \E input \in PlanInputs : pixel_count = input[1] /\ data_len_bytes = input[2]
    /\ bits_needed_per_pixel = 0
    /\ pixel_bit_width = 0
    /\ image_in = <<>>
    /\ image_buf = <<>>
    /\ message_buf = <<>>
    /\ mask = ZeroU64
    /\ start = 0
    /\ header = <<>>
    /\ raw = <<>>
    /\ header_binary = <<>>
    /\ result = <<>>

\* generate_v1_header(pixel_count, data_len_bytes, color_type)
GenerateV1Header ==
    /\ pc = "plan"
    /\ \E r \in generate_v1_header(pixel_count, data_len_bytes, color_type, overflow_checks) :
          /\ result' = [kind |-> r.kind]
          /\ header' = IF r.kind = "Ok" THEN r.header ELSE <<>>
    /\ pc' = "planned"
    /\ UNCHANGED <<overflow_checks, color_type, pixel_count, data_len_bytes,
                   bits_needed_per_pixel, pixel_bit_width, image_in, image_buf,
                   message_buf, mask, start, raw, header_binary>>

PlanNext == GenerateV1Header

SpecPlan == PlanInit /\ [][PlanNext]_vars

\* ------------------------------------------------- claims on the planner

\* pixel_count - header_reserved_pixels, as the number it is meant to be
AvailablePixels == pixel_count - v1_header_len

\* 1 + floor(payload_len_bytes * 8 / available_pixels), computed without loss of width
MinimalBitsPerPixel == 1 + ((data_len_bytes * 8) \div AvailablePixels)

\* C4 (as claimed): when available_pixels does not underflow, plan fails with
\* CapacityExceeded if and only if the minimal bits-per-pixel, computed without
\* loss of width, exceeds the format's total bits-per-pixel.
C4_CapacityBoundary ==
    (pc = "planned" /\ AvailablePixels > 0)
    => (result.kind = "Err" <=> MinimalBitsPerPixel > bits_per_pixel(color_type))

\* C5 (as claimed): when pixel_count is smaller than header_reserved_pixels, plan
\* returns the CapacityExceeded error.
C5_UnderflowIsCapacityExceeded ==
    (pc = "planned" /\ pixel_count < v1_header_len) => result.kind = "Err"

\* C6 (as claimed): whenever payload_len_bytes * 8 <= available_pixels, plan
\* succeeds with a data_mask of exactly one bit.
C6_OneBitUpToEquality ==
    (pc = "planned" /\ data_len_bytes * 8 <= AvailablePixels)
    => (result.kind = "Ok" /\ PopCount(header.data_mask) = 1)

\* C6 (amended): whenever payload_len_bytes * 8 < available_pixels - 1, plan succeeds
\* with a data_mask of exactly one bit.
C6_OneBitWhenRoom ==
    (pc = "planned" /\ data_len_bytes * 8 < AvailablePixels - 1)
    => (result.kind = "Ok" /\ PopCount(header.data_mask) = 1)

\* The largest payload the amended claim covers for its image: one bit per pixel,
\* and a single start offset to choose from.
C6_Witness ==
    /\ pc = "planned"
    /\ data_len_bytes >= 1
    /\ data_len_bytes * 8 = AvailablePixels - 2
    /\ result.kind = "Ok"
    /\ PopCount(header.data_mask) = 1
    /\ header.stuffing_opts.start_offset = U64FromNat(v1_header_len)

\* C7 (as claimed): whenever plan succeeds, start_offset is at least
\* header_reserved_pixels and below header_reserved_pixels + (available_pixels -
\* pixels_needed), the bits set in data_mask are bits_per_pixel many, and
\* start_offset + floor(data_len * 8 / bits_per_pixel) < pixel_count.
C7_PlanInsideImage ==
    (pc = "planned" /\ result.kind = "Ok")
    => LET bpp == PopCount(header.data_mask)
           so == NatFromU64(header.stuffing_opts.start_offset)
           pixels_needed == ((data_len_bytes * 8) \div bpp) + 1
       IN  /\ bpp >= 1
           /\ AvailablePixels > 0 => bpp = MinimalBitsPerPixel
           /\ v1_header_len <= so
           /\ so < v1_header_len + (AvailablePixels - pixels_needed)
           /\ so + ((data_len_bytes * 8) \div bpp) < pixel_count

\* --------------------------------------- specification of calculate_bit_mask

MaskInit ==
    /\ pc = "mask"
    /\ overflow_checks \in BOOLEAN
    /\ color_type \in ColorTypes
    /\ bits_needed_per_pixel \in 0..MaskMaxBits
    /\ pixel_count = 0
    /\ data_len_bytes = 0
    /\ pixel_bit_width = 0
    /\ image_in = <<>>
    /\ image_buf = <<>>
    /\ message_buf = <<>>
    /\ mask = ZeroU64
    /\ start = 0
    /\ header = <<>>
    /\ raw = <<>>
    /\ header_binary = <<>>
    /\ result = <<>>

\* calculate_bit_mask(bits_needed_per_pixel, color_type)
CalculateBitMask ==
    /\ pc = "mask"
    /\ LET r == calculate_bit_mask(bits_needed_per_pixel, color_type, overflow_checks)
       IN  /\ result' = [kind |-> r.kind]
           /\ mask' = IF r.kind = "ok" THEN r.mask ELSE mask
    /\ pc' = "masked"
    /\ UNCHANGED <<overflow_checks, color_type, pixel_count, data_len_bytes,
                   bits_needed_per_pixel, pixel_bit_width, image_in, image_buf,
                   message_buf, start, header, raw, header_binary>>

MaskNext == CalculateBitMask

SpecMask == MaskInit /\ [][MaskNext]_vars

\* C8: for n from 1 to the format's total bits-per-pixel, calculate_bit_mask(n,
\* format) sets exactly n bits, all within the first C * 8 MSB-first positions;
\* channel k gets floor(n / C) bits plus one iff k < n mod C; the bits of a channel
\* are the lowest-order bits of its 8-bit range.
C8_MaskDistribution ==
    (pc = "masked" /\ bits_needed_per_pixel >= 1
                   /\ bits_needed_per_pixel <= bits_per_pixel(color_type))
    => LET C == channel_count(color_type)
           n == bits_needed_per_pixel
           share(k) == (n \div C) + (IF k < n % C THEN 1 ELSE 0)
       IN  /\ result.kind = "ok"
           /\ PopCount(mask) = n
           /\ \A i \in 0..(U64Bits - 1) :
                 U64Bit(mask, U64Bits - 1 - i) <=>
                    (i < C * 8 /\ (i % 8) >= 8 - share(i \div 8))

\* The test calculate_partial_bit_mask_rgba8: 5 bits over 4 channels.
C8_Witness ==
    /\ pc = "masked"
    /\ color_type = "Rgba8"
    /\ bits_needed_per_pixel = 5
    /\ mask = <<3, 1, 1, 1, 0, 0, 0, 0>>

\* ---------------------------------------- specification of create_offset_map

OffsetMasks ==
    CodecMasks \cup { <<132, 33, 0, 0, 0, 0, 0, 1>>,
                      <<255, 255, 255, 255, 255, 255, 255, 255>>,
                      <<0, 0, 128, 0, 0, 1, 0, 0>> }

OffsetInit ==
    /\ pc = "offset_map"
    /\ mask \in OffsetMasks
    /\ pixel_bit_width \in 0..U64Bits
    /\ overflow_checks = TRUE
    /\ color_type = "Rgb8"
    /\ pixel_count = 0
    /\ data_len_bytes = 0
    /\ bits_needed_per_pixel = 0
    /\ image_in = <<>>
    /\ image_buf = <<>>
    /\ message_buf = <<>>
    /\ start = 0
    /\ header = <<>>
    /\ raw = <<>>
    /\ header_binary = <<>>
    /\ result = <<>>

\* create_offset_map(mask, pixel_bit_width)
CreateOffsetMap ==
    /\ pc = "offset_map"
    /\ result' = create_offset_map(mask, pixel_bit_width)
    /\ pc' = "mapped"
    /\ UNCHANGED <<overflow_checks, color_type, pixel_count, data_len_bytes,
                   bits_needed_per_pixel, pixel_bit_width, image_in, image_buf,
                   message_buf, mask, start, header, raw, header_binary>>

OffsetNext == CreateOffsetMap

SpecOffsetMap == OffsetInit /\ [][OffsetNext]_vars

\* C9: create_offset_map(mask, w) contains i iff 0 <= i < w and bit (63 - i) of the
\* mask is set, each such index once and in strictly ascending order.
C9_OffsetMap ==
    pc = "mapped"
    => /\ \A i \in 0..(U64Bits - 1) :
             (\E k \in 1..Len(result) : result[k] = i)
                <=> (i < pixel_bit_width /\ U64Bit(mask, U64Bits - 1 - i))
       /\ \A k \in 1..Len(result) : result[k] \in 0..(U64Bits - 1)
       /\ \A k \in 1..(Len(result) - 1) : result[k] < result[k + 1]

\* The test create_offset_map_test.
C9_Witness ==
    /\ pc = "mapped"
    /\ mask = <<132, 33, 0, 0, 0, 0, 0, 1>>
    /\ pixel_bit_width = 64
    /\ result = <<0, 5, 10, 15, 63>>

\* ----------------------------------------------------- claims on the codec

\* Pixels of the buffer from pixel s on.
PixelsFrom(buf, ct, s) ==
    LET n == Len(buf) \div bytes_per_pixel(ct) IN IF s >= n THEN 0 ELSE n - s

\* The data fits: its 8 * len bits find room in the selected bits of the pixels
\* from the start pixel on.
Fits(buf, ct, s, m, len) ==
    8 * len <= PixelsFrom(buf, ct, s) * Len(create_offset_map(m, bits_per_pixel(ct)))

\* C2: for every buffer content, non-zero mask, start pixel and non-empty data that
\* fits in the buffer from the start pixel, write_to_buffer succeeds and the
\* following read_from_buffer of len(data) bytes returns exactly data.
C2_CodecRoundTrip ==
    (/\ pc \in {"written", "write_panicked", "read_back"}
     /\ mask # ZeroU64
     /\ Len(message_buf) >= 1
     /\ Fits(image_in, color_type, start, mask, Len(message_buf)))
    => /\ pc # "write_panicked"
       /\ pc = "read_back" => result = [kind |-> "ok", data |-> message_buf]

\* A round trip of two bytes over three bits per pixel, from a pixel other than
\* the first, in a buffer of mixed content.
C2_Witness ==
    /\ pc = "read_back"
    /\ mask = <<1, 1, 1, 0, 0, 0, 0, 0>>
    /\ start > 0
    /\ Len(message_buf) = 2
    /\ message_buf[1] # message_buf[2]
    /\ image_in[1] = 48
    /\ Fits(image_in, color_type, start, mask, Len(message_buf))
    /\ result = [kind |-> "ok", data |-> message_buf]

\* C10 (as claimed): when the write or the read has to access a pixel past the end
\* of the buffer, the operation returns a BoundsExceeded error as a value.
C10_BoundsExceededReturned ==
    (/\ pc \in {"written", "write_panicked", "read"}
     /\ Len(create_offset_map(mask, bits_per_pixel(color_type))) > 0
     /\ Len(message_buf) >= 1
     /\ ~Fits(image_in, color_type, start, mask, Len(message_buf)))
    => result.kind = "BoundsExceeded"

\* ------------------------------------------ specification of header framing

\* Sample u64 values: 0, 250 and 251 (the end of the one-byte integers), 0x1234,
\* 0xABCD, 0x10000, 0x98761234 (the values of the test and the classes of the
\* variable-length integers), the header mask and all ones.
U64Samples ==
    { ZeroU64, <<0, 0, 0, 0, 0, 0, 0, 250>>, <<0, 0, 0, 0, 0, 0, 0, 251>>,
      <<0, 0, 0, 0, 0, 0, 18, 52>>, <<0, 0, 0, 0, 0, 0, 171, 205>>,
      <<0, 0, 0, 0, 0, 1, 0, 0>>, <<0, 0, 0, 0, 152, 118, 18, 52>>,
      <<1, 0, 0, 0, 0, 0, 0, 0>>, <<255, 255, 255, 255, 255, 255, 255, 255>> }

HeaderInit ==
    /\ pc = "header"
    /\ \E so \in U64Samples, dm \in U64Samples, dl \in U64Samples : header = V1(so, dm, dl)
    /\ overflow_checks = TRUE
    /\ color_type = "Rgb8"
    /\ pixel_count = 0
    /\ data_len_bytes = 0
    /\ bits_needed_per_pixel = 0
    /\ pixel_bit_width = 0
    /\ image_in = <<>>
    /\ image_buf = <<>>
    /\ message_buf = <<>>
    /\ mask = ZeroU64
    /\ start = 0
    /\ raw = <<>>
    /\ header_binary = <<>>
    /\ result = <<>>

\* let as_raw_header: HeaderRaw = header.try_into().unwrap()
TryInto ==
    /\ pc = "header"
    /\ raw' = try_into(header)
    /\ pc' = "raw"
    /\ UNCHANGED <<overflow_checks, color_type, pixel_count, data_len_bytes,
                   bits_needed_per_pixel, pixel_bit_width, image_in, image_buf,
                   message_buf, mask, start, header, header_binary, result>>

\* let as_binary_data = bincode::encode_to_vec(as_raw_header, config::standard()).unwrap()
EncodeToVec ==
    /\ pc = "raw"
    /\ header_binary' = EncodeRaw(raw)
    /\ pc' = "binary"
    /\ UNCHANGED <<overflow_checks, color_type, pixel_count, data_len_bytes,
                   bits_needed_per_pixel, pixel_bit_width, image_in, image_buf,
                   message_buf, mask, start, header, raw, result>>

\* bincode::decode_from_slice(&as_binary_data, config::standard())
DecodeFromSlice ==
    /\ pc = "binary"
    /\ result' = DecodeRaw(header_binary)
    /\ pc' = "parsed"
    /\ UNCHANGED <<overflow_checks, color_type, pixel_count, data_len_bytes,
                   bits_needed_per_pixel, pixel_bit_width, image_in, image_buf,
                   message_buf, mask, start, header, raw, header_binary>>

\* VersionedHeader::try_from(as_raw_header_from_binary_data)
TryFrom ==
    /\ pc = "parsed"
    /\ result.kind = "Ok"
    /\ result' = try_from(result.raw)
    /\ pc' = "deserialized"
    /\ UNCHANGED <<overflow_checks, color_type, pixel_count, data_len_bytes,
                   bits_needed_per_pixel, pixel_bit_width, image_in, image_buf,
                   message_buf, mask, start, header, raw, header_binary>>

HeaderNext == TryInto \/ EncodeToVec \/ DecodeFromSlice \/ TryFrom

SpecHeader == HeaderInit /\ [][HeaderNext]_vars

\* C3: serializing a VersionedHeader h into a HeaderRaw (magic 0x42, header_len the
\* payload length, CRC over the payload), turning it into bytes, parsing the bytes
\* back and deserializing yields a header equal to h.
C3_HeaderRoundTrip ==
    /\ pc \in {"raw", "binary", "parsed", "deserialized"}
       => /\ raw.magic = 66
          /\ raw.header_len = Len(raw.data)
          /\ raw.data = EncodeHeader(header)
          /\ raw.crc = checksum(raw.data)
    /\ pc = "parsed" => result = [kind |-> "Ok", raw |-> raw]
    /\ pc = "deserialized" => result = [kind |-> "Ok", header |-> header]

\* The header of the test encode_and_decode_v1_header, back from its bytes.
C3_Witness ==
    /\ pc = "deserialized"
    /\ header = V1(<<0, 0, 0, 0, 0, 0, 18, 52>>, <<0, 0, 0, 0, 0, 0, 171, 205>>,
                   <<0, 0, 0, 0, 152, 118, 18, 52>>)
    /\ Len(header_binary) = 21
    /\ result = [kind |-> "Ok", header |-> header]

\* ------------------------------------- specification of encode and decode

\* The mask the header is written with: 0b1u64 << 63 >> 7
HeaderMask == <<1, 0, 0, 0, 0, 0, 0, 0>>

\* main.rs, Commands::Encode: magic, header_len (2 bytes, big-endian), the data and
\* the crc (4 bytes, big-endian)
FrameHeader(r) ==
    <<r.magic, (r.header_len \div 256) % 256, r.header_len % 256>> \o r.data \o r.crc

\* try_get_header: read magic and header_len at pixel 0 with the header mask, then
\* the payload and the crc, and deserialize.
try_get_header(buf, ct) ==
    LET head == read_from_buffer(buf, 0, 3, HeaderMask, ct)
        len == head.data[2] * 256 + head.data[3]
        all == read_from_buffer(buf, 0, 3 + len + 4, HeaderMask, ct)
    IN  IF head.kind # "ok" THEN [kind |-> "panic"]
        ELSE IF head.data[1] # 66 THEN [kind |-> "MagicMismatch"]
        ELSE IF all.kind # "ok" THEN [kind |-> "panic"]
        ELSE try_from([magic |-> all.data[1], header_len |-> len,
                       data |-> SubSeq(all.data, 4, 3 + len),
                       crc |-> SubSeq(all.data, 4 + len, 7 + len)])

Payloads == SeqsUpTo({18, 255}, MaxPayload)

\* An image of ImagePixels pixels and a payload.
Init ==
    /\ pc = "encode"
    /\ overflow_checks = TRUE
    /\ color_type \in ColorTypes
    /\ pixel_count = ImagePixels
    /\ image_in \in { [i \in 1..(pixel_count * bytes_per_pixel(color_type)) |-> 0],
                      [i \in 1..(pixel_count * bytes_per_pixel(color_type)) |->
                           (i * 37 + 11) % 256] }
    /\ image_buf = image_in
    /\ message_buf \in Payloads
    /\ data_len_bytes = Len(message_buf)
    /\ bits_needed_per_pixel = 0
    /\ pixel_bit_width = 0
    /\ mask = ZeroU64
    /\ start = 0
    /\ header = <<>>
    /\ raw = <<>>
    /\ header_binary = <<>>
    /\ result = <<>>

\* let header = generate_v1_header(pixel_count, buf_len as u64, color_space).unwrap()
Plan ==
    /\ pc = "encode"
    /\ \E r \in generate_v1_header(pixel_count, data_len_bytes, color_type, overflow_checks) :
          /\ result' = [kind |-> r.kind]
          /\ header' = IF r.kind = "Ok" THEN r.header ELSE <<>>
          /\ pc' = IF r.kind = "Ok" THEN "planned" ELSE "encode_failed"
    /\ UNCHANGED <<overflow_checks, color_type, pixel_count, data_len_bytes,
                   bits_needed_per_pixel, pixel_bit_width, image_in, image_buf,
                   message_buf, mask, start, raw, header_binary>>

\* main.rs lines 121-153: frame the header and write it at pixel 0
WriteHeader ==
    /\ pc = "planned"
    /\ \E r \in {try_into(header)} :
       \E w \in {write_to_buffer(image_buf, 0, HeaderMask, color_type, FrameHeader(r))} :
           /\ raw' = r
           /\ header_binary' = FrameHeader(r)
           /\ mask' = header.data_mask
           /\ start' = header.stuffing_opts.start_offset
           /\ image_buf' = w.buf
           /\ result' = [kind |-> w.kind]
           /\ pc' = IF w.kind = "ok" THEN "header_written" ELSE "encode_failed"
    /\ UNCHANGED <<overflow_checks, color_type, pixel_count, data_len_bytes,
                   bits_needed_per_pixel, pixel_bit_width, image_in, message_buf, header>>

\* image.write_data_with_mask(&message_buf, write_mask, start_offset as usize), and
\* the image saved
WritePayload ==
    /\ pc = "header_written"
    /\ \E w \in {write_to_buffer(image_buf, NatFromU64(start), mask, color_type,
                                 message_buf)} :
           /\ image_buf' = w.buf
           /\ result' = [kind |-> w.kind]
           /\ pc' = IF w.kind = "ok" THEN "encoded" ELSE "encode_failed"
    /\ UNCHANGED <<overflow_checks, color_type, pixel_count, data_len_bytes,
                   bits_needed_per_pixel, pixel_bit_width, image_in, message_buf,
                   mask, start, header, raw, header_binary>>

\* Commands::Decode: let header = match try_get_header(image) { ... exit(1) }
ReadHeader ==
    /\ pc = "encoded"
    /\ \E r \in {try_get_header(image_buf, color_type)} :
           /\ result' = r
           /\ pc' = IF r.kind = "Ok" THEN "header_read" ELSE "decode_failed"
    /\ UNCHANGED <<overflow_checks, color_type, pixel_count, data_len_bytes,
                   bits_needed_per_pixel, pixel_bit_width, image_in, image_buf,
                   message_buf, mask, start, header, raw, header_binary>>

\* image.read_data_with_mask(data_mask, start_offset as usize, data_len as usize)
ReadPayload ==
    /\ pc = "header_read"
    /\ LET h == result.header
           r == read_from_buffer(image_buf, NatFromU64(h.stuffing_opts.start_offset),
                                 NatFromU64(h.data_len), h.data_mask, color_type)
       IN  /\ result' = r
           /\ pc' = IF r.kind = "ok" THEN "decoded" ELSE "decode_failed"
    /\ UNCHANGED <<overflow_checks, color_type, pixel_count, data_len_bytes,
                   bits_needed_per_pixel, pixel_bit_width, image_in, image_buf,
                   message_buf, mask, start, header, raw, header_binary>>

Next == Plan \/ WriteHeader \/ WritePayload \/ ReadHeader \/ ReadPayload

Spec == Init /\ [][Next]_vars

\* The payload is within the capacity of the image: the planner, computing within
\* the 64-bit range, returns a plan.
WithinCapacity ==
    \E r \in generate_v1_header(pixel_count, Len(message_buf), color_type, TRUE) :
       r.kind = "Ok"

\* C1 (as claimed): for every payload within the capacity of the image, the empty
\* one included, and every start_offset the planner may choose, encoding succeeds
\* and decoding the resulting buffer returns exactly the payload.
C1_EndToEndRoundTrip ==
    WithinCapacity
    => /\ pc \notin {"encode_failed", "decode_failed"}
       /\ pc = "decoded" => result = [kind |-> "ok", data |-> message_buf]

\* ------------------------------ specification of header integrity checking

\* Bit k (bit k % 8, most significant first, of byte k \div 8) of the bytes inverted.
FlipBit(bytes, k) ==
    LET at == (k \div 8) + 1
        byte == bytes[at]
    IN  [bytes EXCEPT ![at] = IF BitAt(byte, k % 8) THEN ClearBit(byte, k % 8)
                               ELSE SetBit(byte, k % 8)]

\* The number of bit positions in which two byte strings of one length differ.
BitDistance(a, b) ==
    Cardinality({ k \in 0..(8 * Len(a) - 1) :
                    BitAt(a[(k \div 8) + 1], k % 8) # BitAt(b[(k \div 8) + 1], k % 8) })

\* Field values of the headers: one of each length of variable-length integer
\* that a u64 field takes (1, 3, 5 and 9 bytes).
IntegritySamples ==
    { <<0, 0, 0, 0, 0, 0, 0, 24>>, <<0, 0, 0, 0, 0, 0, 18, 52>>,
      <<0, 0, 0, 0, 152, 118, 18, 52>>, <<1, 0, 0, 0, 0, 0, 0, 0>> }

\* Magic numbers other than 0x42: one bit off, zero, all ones.
WrongMagics == {67, 0, 255}

\* Payloads that are no encoding of a VersionedHeader: nothing, an unknown variant,
\* a variable-length integer cut short.
MalformedPayloads == { <<>>, <<7>>, <<0, 0, 253, 1, 2>> }

IntegrityInit ==
    /\ pc = "header"
    /\ \E so \in IntegritySamples, dl \in IntegritySamples :
          header = V1(so, <<1, 0, 0, 0, 0, 0, 0, 0>>, dl)
    /\ overflow_checks = TRUE
    /\ color_type = "Rgb8"
    /\ pixel_count = 0
    /\ data_len_bytes = 0
    /\ bits_needed_per_pixel = 0
    /\ pixel_bit_width = 0
    /\ image_in = <<>>
    /\ image_buf = <<>>
    /\ message_buf = <<>>
    /\ mask = ZeroU64
    /\ start = 0
    /\ raw = <<>>
    /\ header_binary = <<>>
    /\ result = <<>>

\* let raw: HeaderRaw = header.try_into().unwrap(); header_binary keeps the payload
\* as serialized.
Serialize ==
    /\ pc = "header"
    /\ raw' = try_into(header)
    /\ header_binary' = EncodeHeader(header)
    /\ pc' = "raw"
    /\ UNCHANGED <<overflow_checks, color_type, pixel_count, data_len_bytes,
                   bits_needed_per_pixel, pixel_bit_width, image_in, image_buf,
                   message_buf, mask, start, header, result>>

\* One bit of the serialized payload is inverted; magic and crc stay as produced.
FlipPayloadBit ==
    /\ pc = "raw"
    /\ \E k \in 0..(8 * Len(raw.data) - 1) : raw' = [raw EXCEPT !.data = FlipBit(raw.data, k)]
    /\ pc' = "flipped"
    /\ UNCHANGED <<overflow_checks, color_type, pixel_count, data_len_bytes,
                   bits_needed_per_pixel, pixel_bit_width, image_in, image_buf,
                   message_buf, mask, start, header, header_binary, result>>

\* One bit of the stored crc is inverted.
FlipCrcBit ==
    /\ pc = "raw"
    /\ \E k \in 0..31 : raw' = [raw EXCEPT !.crc = FlipBit(raw.crc, k)]
    /\ pc' = "crc_flipped"
    /\ UNCHANGED <<overflow_checks, color_type, pixel_count, data_len_bytes,
                   bits_needed_per_pixel, pixel_bit_width, image_in, image_buf,
                   message_buf, mask, start, header, header_binary, result>>

\* The payload replaced by bytes that decode to no header, with their own crc.
ReplacePayload ==
    /\ pc = "raw"
    /\ \E d \in MalformedPayloads :
          raw' = [raw EXCEPT !.data = d, !.header_len = Len(d), !.crc = checksum(d)]
    /\ pc' = "malformed"
    /\ UNCHANGED <<overflow_checks, color_type, pixel_count, data_len_bytes,
                   bits_needed_per_pixel, pixel_bit_width, image_in, image_buf,
                   message_buf, mask, start, header, header_binary, result>>

\* The magic number replaced, whatever has happened to payload and crc.
CorruptMagic ==
    /\ pc \in {"raw", "flipped", "crc_flipped", "malformed"}
    /\ \E m \in WrongMagics : raw' = [raw EXCEPT !.magic = m]
    /\ pc' = "magic_corrupted"
    /\ UNCHANGED <<overflow_checks, color_type, pixel_count, data_len_bytes,
                   bits_needed_per_pixel, pixel_bit_width, image_in, image_buf,
                   message_buf, mask, start, header, header_binary, result>>

\* VersionedHeader::try_from(raw)
Deserialize ==
    /\ pc \in {"raw", "flipped", "crc_flipped", "malformed", "magic_corrupted"}
    /\ result' = try_from(raw)
    /\ pc' = CASE pc = "raw" -> "raw_deserialized"
               [] pc = "flipped" -> "flipped_deserialized"
               [] pc = "crc_flipped" -> "crc_flipped_deserialized"
               [] pc = "malformed" -> "malformed_deserialized"
               [] pc = "magic_corrupted" -> "magic_corrupted_deserialized"
    /\ UNCHANGED <<overflow_checks, color_type, pixel_count, data_len_bytes,
                   bits_needed_per_pixel, pixel_bit_width, image_in, image_buf,
                   message_buf, mask, start, header, raw, header_binary>>

IntegrityNext ==
    Serialize \/ FlipPayloadBit \/ FlipCrcBit \/ ReplacePayload \/ CorruptMagic \/ Deserialize

SpecIntegrity == IntegrityInit /\ [][IntegrityNext]_vars

\* The HeaderRaw has been handed to try_from.
Deserialized ==
    pc \in {"raw_deserialized", "flipped_deserialized", "crc_flipped_deserialized",
            "malformed_deserialized", "magic_corrupted_deserialized"}

\* C11: deserializing a HeaderRaw whose magic differs from 0x42 yields MagicMismatch
\* whatever its payload and crc are (intact, a payload bit flipped, a crc bit
\* flipped, a payload that decodes to nothing), and a HeaderRaw with the magic
\* 0x42 is never answered with MagicMismatch.
C11_MagicCheckedFirst ==
    Deserialized => (result.kind = "MagicMismatch" <=> raw.magic # 66)

\* A wrong magic on a HeaderRaw whose payload has a flipped bit, so that its crc
\* does not match either: the answer is MagicMismatch.
C11_Witness ==
    /\ pc = "magic_corrupted_deserialized"
    /\ raw.magic = 67
    /\ header = V1(<<0, 0, 0, 0, 0, 0, 18, 52>>, <<1, 0, 0, 0, 0, 0, 0, 0>>,
                   <<0, 0, 0, 0, 0, 0, 0, 24>>)
    /\ Len(raw.data) = Len(header_binary)
    /\ BitDistance(raw.data, header_binary) = 1
    /\ checksum(raw.data) # raw.crc
    /\ result = [kind |-> "MagicMismatch"]

\* C12: for every header and every bit position of its serialized payload, with
\* that one bit flipped and magic and crc as produced by serialize, deserialize
\* answers ChecksumMismatch: no header, no other error.
C12_SingleBitFlipDetected ==
    pc = "flipped_deserialized"
    => /\ raw.magic = 66
       /\ Len(raw.data) = Len(header_binary)
       /\ BitDistance(raw.data, header_binary) = 1
       /\ result = [kind |-> "ChecksumMismatch"]

\* The last bit of the longest payload (two 9-byte fields) flipped and detected.
C12_Witness ==
    /\ pc = "flipped_deserialized"
    /\ header = V1(<<1, 0, 0, 0, 0, 0, 0, 0>>, <<1, 0, 0, 0, 0, 0, 0, 0>>,
                   <<1, 0, 0, 0, 0, 0, 0, 0>>)
    /\ raw.data = FlipBit(header_binary, 8 * Len(header_binary) - 1)
    /\ raw.crc = checksum(header_binary)
    /\ result = [kind |-> "ChecksumMismatch"]

\* ------------------------------------------- claims on the header region

\* The pixels the framed header occupies from pixel 0 on: its bits over the bits
\* per pixel that the header mask selects, rounded up.
HeaderPixels ==
    LET n == Len(create_offset_map(HeaderMask, bits_per_pixel(color_type)))
    IN  (8 * Len(header_binary) + n - 1) \div n

\* C13 (as claimed): the framed header is written at pixel 0 with the mask of all
\* bits of a pixel and occupies only pixels below header_reserved_pixels, and
\* writing the payload afterwards changes no header bit: the frame read back
\* at pixel 0 after the payload write is the frame that was written.
C13_HeaderInsideReservedRegion ==
    pc \in {"header_written", "encoded"}
    => /\ Len(create_offset_map(HeaderMask, bits_per_pixel(color_type)))
             = bits_per_pixel(color_type)
       /\ HeaderPixels <= v1_header_len
       /\ pc = "encoded"
          => read_from_buffer(image_buf, 0, Len(header_binary), HeaderMask, color_type)
                = [kind |-> "ok", data |-> header_binary]

\* --------------------------------------- claims on the start-offset range

\* C14 (as claimed): when the capacity check passes and the range for start_offset
\* is empty, available_pixels - pixels_needed <= 0 with pixels_needed =
\* floor(payload_len_bytes * 8 / bits_per_pixel) + 1, plan returns the
\* CapacityExceeded error: it neither crashes nor returns a plan.
C14_EmptyRangeIsCapacityExceeded ==
    (/\ pc = "planned"
     /\ AvailablePixels > 0
     /\ MinimalBitsPerPixel <= bits_per_pixel(color_type)
     /\ AvailablePixels - (((data_len_bytes * 8) \div MinimalBitsPerPixel) + 1) <= 0)
    => result.kind = "Err"

\* ------------------------------------------ claims on reading and writing

\* Selected bit number k of a buffer: the bits the offset map om selects, counted
\* from pixel s on in pixel order and, inside a pixel, in offset-map order.
SelectedBitOf(buf, ct, s, om, k) ==
    LET off == om[(k % Len(om)) + 1]
    IN  BitAt(buf[PixelByte(bytes_per_pixel(ct), s + (k \div Len(om)), off)], off % 8)

\* The same for the offset map of mask m.
SelectedBit(buf, ct, s, m, k) ==
    SelectedBitOf(buf, ct, s, create_offset_map(m, bits_per_pixel(ct)), k)

\* C15 (as claimed): for every n_bytes >= 0, n_bytes == 0 included, and a buffer that
\* holds at least ceil(n_bytes * 8 / |offset_map|) pixels from the start pixel,
\* read_from_buffer returns exactly n_bytes bytes, and bit i (most significant
\* first) of byte j is selected bit 8j + i.
C15_ReadReturnsNBytes ==
    (/\ pc = "read"
     /\ Len(create_offset_map(mask, bits_per_pixel(color_type))) > 0
     /\ Fits(image_buf, color_type, start, mask, Len(message_buf)))
    => /\ result.kind = "ok"
       /\ Len(result.data) = Len(message_buf)
       /\ \A j \in 1..Len(result.data) : \A i \in 0..7 :
             BitAt(result.data[j], i)
                = SelectedBit(image_buf, color_type, start, mask, 8 * (j - 1) + i)

\* The positions <<byte index, bit in byte>> of selected bits 0..8 * len - 1.
WrittenPositions(ct, s, om, len) ==
    { <<PixelByte(bytes_per_pixel(ct), s + (k \div Len(om)), om[(k % Len(om)) + 1]),
        om[(k % Len(om)) + 1] % 8>> : k \in 0..(8 * len - 1) }

\* C16: after a successful write of data (at least one byte) with offset map M
\* from pixel s, selected bit k equals bit k of data (most significant first) for
\* every k in 0..8 * len(data) - 1, and every other bit of the buffer is as it was
\* before the write: unselected bits of touched pixels, selected bits after the
\* last data bit, all pixels before s and after the last touched pixel.
C16_WriteFrame ==
    (pc \in {"written", "read_back"} /\ Len(message_buf) >= 1)
    => \A om \in {create_offset_map(mask, bits_per_pixel(color_type))} :
       \A written \in {WrittenPositions(color_type, start, om, Len(message_buf))} :
          /\ Len(image_buf) = Len(image_in)
          /\ \A k \in 0..(8 * Len(message_buf) - 1) :
                SelectedBitOf(image_buf, color_type, start, om, k)
                   = BitAt(message_buf[(k \div 8) + 1], k % 8)
          /\ \A b \in 1..Len(image_buf) :
                image_buf[b] # image_in[b]
                => \A i \in 0..7 :
                      BitAt(image_buf[b], i) # BitAt(image_in[b], i)
                      => <<b, i>> \in written

\* Two bytes written over three bits per pixel from pixel 1 into a buffer of ones:
\* the sixth pixel takes the last data bit, a zero, in its first selected bit, its
\* other two selected bits keep their ones, and the pixels before and after the
\* six touched ones are as they were.
C16_Witness ==
    /\ pc = "written"
    /\ mask = <<1, 1, 1, 0, 0, 0, 0, 0>>
    /\ start = 1
    /\ message_buf = <<0, 18>>
    /\ image_in[1] = 255
    /\ image_buf # image_in
    /\ ~SelectedBit(image_buf, color_type, start, mask, 15)
    /\ SelectedBit(image_buf, color_type, start, mask, 16)
    /\ SelectedBit(image_buf, color_type, start, mask, 17)
    /\ SubSeq(image_buf, 1, bytes_per_pixel(color_type))
          = SubSeq(image_in, 1, bytes_per_pixel(color_type))
    /\ image_buf[Len(image_buf)] = 255

====
